---- MODULE Spec2Model ----
(***************************************************************************)
(* ladybug/comfort/pmv.py as a state machine.                              *)
(*                                                                         *)
(* One behaviour is one call of one public function of the module.  The   *)
(* control flow, the branches, the loop guards, the assignments and the   *)
(* calls are those of the source.  Floating point quantities are fixed    *)
(* point integers: temperatures in thousandths of a degree, air speed in  *)
(* hundredths of m/s, clo, met and the Pierce coefficients in             *)
(* thousandths, PMV and PPD in thousandths, the Fanger xn/xf in units of  *)
(* 0.00001.  The results of the transcendental heat balance expressions   *)
(* (exp, fractional pow over the running skin and core temperatures) are  *)
(* drawn from small sets at the place where the source computes them.     *)
(*                                                                         *)
(* ladybug/rootfind.py (secant, bisect) is not part of the sources at     *)
(* hand: Secant and Bisect are written from the contract of section 4.1   *)
(* of the specification.                                                   *)
(***************************************************************************)
EXTENDS Integers, Sequences, FiniteSets, TLC

VARIABLES
    call,    \* the public function called and its arguments
    pc,      \* the statement about to execute
    stack,   \* return labels of the suspended callers, innermost first
    ret,     \* value handed back by the callee that returned last
    result,  \* outcome of the call: a returned value or a raised exception
    pm,      \* locals of pmv
    fg,      \* locals of pmv_fanger
    ps,      \* locals of pierce_set
    pp,      \* locals of pmv_from_ppd
    cm,      \* locals of calc_missing_pmv_input
    calls    \* the root finder calls made so far, in order

vars == <<call, pc, stack, ret, result, pm, fg, ps, pp, cm, calls>>

Null == [none |-> TRUE]

Abs(x) == IF x < 0 THEN -x ELSE x

Max(a, b) == IF a >= b THEN a ELSE b

(***************************************************************************)
(* Inputs of the model.                                                    *)
(***************************************************************************)
TaVals == {25000, 45000}          \* air temperature, 25 C and 45 C
TrVals == {30000}                 \* mean radiant temperature
VelVals == {5, 10, 50, 100}       \* 0.05, 0.1, 0.5 and 1 m/s
ThrVals == {10, 50}               \* still_air_threshold, default 0.1 m/s
RhVals == {50}
MetVals == {800, 1200}            \* met < 0.85 and met >= 0.85
CloVals == {0, 500}               \* clo <= 0 and clo > 0
WmeVals == {0}

Inputs ==
    [ta : TaVals, tr : TrVals, vel : VelVals, rh : RhVals,
     met : MetVals, clo : CloVals, wme : WmeVals]

(***************************************************************************)
(* math.pow and math.sqrt at the air speeds of the model, in thousandths.  *)
(***************************************************************************)
PowVel(v, e) ==
    CASE e = "-0.29" -> (CASE v = 10 -> 1950 [] v = 50 -> 1223 [] OTHER -> 1000)
      [] e = "-0.08" -> (CASE v = 10 -> 1202 [] v = 50 -> 1057 [] OTHER -> 1000)
      [] OTHER       -> (CASE v = 10 -> 295 [] v = 50 -> 693 [] OTHER -> 1000)

SqrtVel(v) ==
    CASE v = 5 -> 224 [] v = 10 -> 316 [] v = 50 -> 707 [] OTHER -> 1000

(***************************************************************************)
(* Leaving a function.                                                     *)
(***************************************************************************)
\* An exception is caught nowhere in the module: it ends the whole call.
Raise(e) ==
    /\ pc' = "done"
    /\ stack' = <<>>
    /\ result' = [kind |-> "raise", val |-> e]
    /\ ret' = Null

\* return v: to the caller's return label, or out of the public call.
Return(v) ==
    IF stack = <<>>
    THEN /\ pc' = "done"
         /\ result' = [kind |-> "value", val |-> v]
         /\ ret' = Null
         /\ stack' = stack
    ELSE /\ pc' = Head(stack)
         /\ stack' = Tail(stack)
         /\ ret' = [val |-> v]
         /\ result' = result

(***************************************************************************)
(* pierce_set                                                              *)
(***************************************************************************)
ltime == 60

EmaxVals == {-2000, 0, 50000}        \* emax of a step: -2, 0 and 50 W/m2
RegswVals == {0, 20000, 600000}      \* csw * warmb * exp(warms / 10.7)
XVals == {21000, 23000, 23005}       \* estimates of SET: 21, 23 and 23.005 C

\* met - 0.85 to the power 0.39, in thousandths (met >= 0.85)
PowMet(met) == IF met = 1200 THEN 664 ELSE 0

\* lines 226-293: everything before the simulation loop
PierceInit(a) ==
    LET air_velocity == Max(a.vel, 10)
        rcl == (155 * a.clo) \div 1000
        facl == 1000 + (150 * a.clo) \div 1000
        wcrit == IF a.clo <= 0
                 THEN (380 * PowVel(air_velocity, "-0.29")) \div 1000
                 ELSE (590 * PowVel(air_velocity, "-0.08")) \div 1000
        icl == IF a.clo <= 0 THEN 1000 ELSE 450
        chc == Max(3000, (8600 * PowVel(air_velocity, "0.53")) \div 1000)
        chr == 4700
        ctc == chr + chc
        RA == 1000000000 \div (facl * ctc)
        top == (chr * (a.tr \div 10) + chc * (a.ta \div 10)) \div (ctc \div 10)
        temp_skin == 33700
        tcl == top + ((temp_skin - top) * 1000) \div ((ctc * (RA + rcl)) \div 1000)
    IN  [a |-> a, rcl |-> rcl, facl |-> facl, wcrit |-> wcrit, icl |-> icl,
         chc |-> chc, chr |-> chr, ctc |-> ctc, RA |-> RA, top |-> top,
         tcl |-> tcl, tcl_old |-> tcl, flag |-> TRUE, TIM |-> 0,
         temp_skin |-> temp_skin, esk |-> a.met \div 10,
         emax |-> 0, ersw |-> 0, edif |-> 0, pwet |-> 0, prsw |-> 0,
         chcS |-> 0, x_old |-> 0, dx |-> 0, x |-> 0]

\* lines 296-303: the while loop under "if flag is True"
RECURSIVE InnerLoop(_)
InnerLoop(f) ==
    IF Abs(f.tcl - f.tcl_old) > 10
    THEN LET T == ((f.tcl + f.a.tr) \div 2 + 273150) \div 1000
             chr == (((T * T * T) \div 1000) * 1633) \div 10000
             ctc == chr + f.chc
             RA == 1000000000 \div (f.facl * ctc)
             top == (chr * (f.a.tr \div 10) + f.chc * (f.a.ta \div 10)) \div (ctc \div 10)
             tcl == (RA * f.temp_skin + f.rcl * top) \div (RA + f.rcl)
         IN  InnerLoop([f EXCEPT !.tcl_old = f.tcl, !.chr = chr, !.ctc = ctc,
                                 !.RA = RA, !.top = top, !.tcl = tcl])
    ELSE f

\* lines 340-356: skin wettedness and evaporative loss of one step, from the
\* step's emax (not 0) and regulatory sweating ersw
Evaporation(emax, ersw, wcrit) ==
    LET prsw0 == (ersw * 1000) \div emax
        pwet0 == 60 + (940 * prsw0) \div 1000
        edif0 == (pwet0 * emax) \div 1000 - ersw
        esk0 == ersw + edif0
        s0 == [ersw |-> ersw, prsw |-> prsw0, pwet |-> pwet0,
               edif |-> edif0, esk |-> esk0]
        prswC == (wcrit * 1000) \div 940
        erswC == (prswC * emax) \div 1000
        edifC == ((((1000 - prswC) * emax) \div 1000) * 60) \div 1000
        s1 == IF s0.pwet > wcrit
              THEN [ersw |-> erswC, prsw |-> prswC, pwet |-> wcrit,
                    edif |-> edifC, esk |-> erswC + edifC]
              ELSE s0
        s2 == IF emax < 0
              THEN [ersw |-> 0, prsw |-> wcrit, pwet |-> wcrit,
                    edif |-> 0, esk |-> emax]
              ELSE s1
    IN  [s2 EXCEPT !.esk = s2.ersw + s2.edif]

\* the step with "flag = False" left out
PierceStepFrame_FlagKept(f, emax, regsw0) ==
    LET g == IF f.flag = TRUE THEN InnerLoop(f) ELSE f
        regsw == IF regsw0 > 500000 THEN 500000 ELSE regsw0
        ersw == (68 * regsw) \div 100
    IN  IF emax = 0
        THEN [g EXCEPT !.emax = emax, !.ersw = ersw]
        ELSE LET e == Evaporation(emax, ersw, g.wcrit)
             IN  [g EXCEPT !.emax = emax, !.ersw = e.ersw,
                           !.edif = e.edif, !.pwet = e.pwet, !.prsw = e.prsw,
                           !.esk = e.esk, !.TIM = g.TIM + 1]

\* lines 294-359: one step of the simulation loop
PierceStepFrame(f, emax, regsw0) ==
    LET g == IF f.flag = TRUE THEN InnerLoop(f) ELSE f
        regsw == IF regsw0 > 500000 THEN 500000 ELSE regsw0
        ersw == (68 * regsw) \div 100
    IN  IF emax = 0
        THEN [g EXCEPT !.flag = FALSE, !.emax = emax, !.ersw = ersw]
        ELSE LET e == Evaporation(emax, ersw, g.wcrit)
             IN  [g EXCEPT !.flag = FALSE, !.emax = emax, !.ersw = e.ersw,
                           !.edif = e.edif, !.pwet = e.pwet, !.prsw = e.prsw,
                           !.esk = e.esk, !.TIM = g.TIM + 1]

PierceStep ==
    /\ pc = "ps_294"
    /\ ps.TIM < ltime
    /\ \E emax \in EmaxVals, regsw \in RegswVals :
          /\ ps' = PierceStepFrame(ps, emax, regsw)
          /\ IF emax = 0
             THEN Raise("ZeroDivisionError")
             ELSE /\ pc' = "ps_294"
                  /\ UNCHANGED <<stack, ret, result>>
    /\ UNCHANGED <<call, pm, fg, pp, cm, calls>>

\* lines 361-398: the standard environment and the first estimate of SET
PierceStandard ==
    /\ pc = "ps_294"
    /\ ps.TIM >= ltime
    /\ \E x0 \in XVals :
          ps' = [ps EXCEPT
                   !.emax = (ps.emax * ps.wcrit) \div 1000,
                   !.chcS = IF ps.a.met < 850
                            THEN 3000
                            ELSE Max(3000, (5660 * PowMet(ps.a.met)) \div 1000),
                   !.dx = 100000,
                   !.x_old = x0]
    /\ pc' = "ps_399"
    /\ UNCHANGED <<call, stack, ret, result, pm, fg, pp, cm, calls>>

\* lines 399-406: one Newton iteration
PierceNewton ==
    /\ pc = "ps_399"
    /\ Abs(ps.dx) > 10
    /\ \E x \in XVals :
          ps' = [ps EXCEPT !.x = x, !.dx = x - ps.x_old, !.x_old = x]
    /\ UNCHANGED <<call, pc, stack, ret, result, pm, fg, pp, cm, calls>>

\* line 408
PierceReturn ==
    /\ pc = "ps_399"
    /\ ~(Abs(ps.dx) > 10)
    /\ Return(ps.x)
    /\ ps' = Null
    /\ UNCHANGED <<call, pm, fg, pp, cm, calls>>

\* pierce_set(ta, tr, vel, rh, met, clo, wme) called from label `from`
CallPierce(a) ==
    /\ ps' = PierceInit(a)
    /\ pc' = "ps_294"

(***************************************************************************)
(* ppd_from_pmv, line 429, at whole votes: pmv in thousandths, PPD in      *)
(* thousandths of a percent.  pow(pmv, 2) and pow(pmv, 4) make it even.    *)
(***************************************************************************)
PpdFromPmv(pmv) ==
    LET p2 == (pmv * pmv) \div 1000000
    IN  CASE p2 = 0 -> 5000
          [] p2 = 1 -> 26120
          [] p2 = 4 -> 76762
          [] OTHER  -> 99116

(***************************************************************************)
(* rootfind.secant and rootfind.bisect, from section 4.1 of the            *)
(* specification.  F is the target function on the points of `grid`.       *)
(* A returned float x is Float(x) and the no-convergence signal 'NaN' is    *)
(* NaN.  The field fb marks a float that is the fallback of bisect: the    *)
(* caller gets a bare float and cannot read the mark.                      *)
(***************************************************************************)
NaN == [nan |-> TRUE, v |-> 0, fb |-> FALSE]

Float(x) == [nan |-> FALSE, v |-> x, fb |-> FALSE]

Fallback(x) == [nan |-> FALSE, v |-> x, fb |-> TRUE]

\* The iteration starts from the two bounds and is not confined to them: it
\* ends at a point where |fn| < tolerance, or gives the signal.
Secant(lower, upper, F, tolerance, grid) ==
    {Float(x) : x \in {y \in grid : Abs(F[y]) < tolerance}} \cup {NaN}

SameSign(a, b) == (a > 0 /\ b > 0) \/ (a < 0 /\ b < 0)

\* Bisection of a sign-changing interval; the fallback when the endpoints have
\* the same sign.
Bisect(lower, upper, F, tolerance, fallbacks, grid) ==
    IF SameSign(F[lower], F[upper])
    THEN {Fallback(x) : x \in fallbacks}
    ELSE {Float(x) : x \in {y \in grid : lower <= y /\ y <= upper}}

\* the signal tested against None, which secant never returns
IsNaN_None(r) == FALSE

\* lines 83, 456, 460 and 552: the test == 'NaN' on what secant returned
IsNaN(r) == r = NaN

RootCall(caller, kind, lower, upper, fn, tolerance, r) ==
    [caller |-> caller, kind |-> kind, lower |-> lower, upper |-> upper,
     fn |-> fn, tolerance |-> tolerance, ret |-> r]

(***************************************************************************)
(* pmv_fanger                                                              *)
(***************************************************************************)
MaxFangerIter == 150

HcnVals == {3000}           \* 2.38 * |100 xf - taa| ^ 0.25, about 3 W/m2K
GapVals == {10, 1000}       \* xn - xf after line 168: 0.0001 and 0.01
PmvVals == {-1000, 0, 2000} \* ts * (mw - hl1 - ... - hl6): -1, 0 and 2

PyInt(n) == [t |-> "int", v |-> n]

\* lines 134-160
FangerInit(a) ==
    LET icl == (155 * a.clo) \div 1000
        m == (a.met * 5815) \div 100
        w == (a.wme * 5815) \div 100
        fcl == IF icl <= 78
               THEN 1000 + (1290 * icl) \div 1000
               ELSE 1050 + (645 * icl) \div 1000
        taa == a.ta + 273000
        tcla == taa + ((35500 - a.ta) * 1000) \div ((35 * icl) \div 10 + 100)
    IN  [a |-> a, icl |-> icl, m |-> m, mw |-> m - w, fcl |-> fcl,
         hcf |-> (12100 * SqrtVel(a.vel)) \div 1000,
         taa |-> taa, tra |-> a.tr + 273000,
         xn |-> tcla, xf |-> 2 * tcla, eps |-> 15, n |-> 0,
         hc |-> 0, hcBound |-> FALSE]

\* lines 162-169: the body of the tcl loop
FangerBody(f, hcn, gap) ==
    LET xf == (f.xf + f.xn) \div 2
    IN  [f EXCEPT !.xf = xf,
                  !.hc = IF f.hcf > hcn THEN f.hcf ELSE hcn,
                  !.hcBound = TRUE,
                  !.xn = xf + gap,
                  !.n = f.n + 1]

\* lines 174-199
FangerResult(f, pmv) ==
    [t |-> "tuple",
     pmv |-> pmv,
     ppd |-> PpdFromPmv(pmv),
     heat_loss |->
        <<0,
          IF f.mw > 58150 THEN (42 * (f.mw - 58150)) \div 100 ELSE 0,
          0,
          ((((f.m \div 10) * (34000 - f.a.ta)) \div 1000) * 14) \div 100,
          0,
          (f.fcl \div 100) * (f.hc \div 100)>>]

\* line 170: the iteration cap
FangerCapped(f) == f.n > MaxFangerIter

\* lines 161-172: one iteration of the tcl loop
FangerIter ==
    /\ pc = "fg_161"
    /\ Abs(fg.xn - fg.xf) > fg.eps
    /\ \E hcn \in HcnVals, gap \in GapVals :
          LET f == FangerBody(fg, hcn, gap)
          IN  /\ fg' = f
              /\ IF FangerCapped(f)
                 THEN Return(PyInt(1))
                 ELSE /\ pc' = "fg_161"
                      /\ UNCHANGED <<stack, ret, result>>
    /\ UNCHANGED <<call, pm, ps, pp, cm, calls>>

\* lines 174-199: the heat losses, PMV and PPD
FangerFinish ==
    /\ pc = "fg_161"
    /\ ~(Abs(fg.xn - fg.xf) > fg.eps)
    /\ IF fg.hcBound
       THEN \E pmv \in PmvVals : Return(FangerResult(fg, pmv))
       ELSE Raise("UnboundLocalError")
    /\ UNCHANGED <<call, fg, pm, ps, pp, cm, calls>>

CallFanger(a) ==
    /\ fg' = FangerInit(a)
    /\ pc' = "fg_161"

(***************************************************************************)
(* pmv                                                                     *)
(***************************************************************************)
ce_l == 0
ce_r == 40000
CeVals == {-2000, 0, 3500, 40000}    \* -2, 0, 3.5 and 40 C

\* lines 65, 73-75
PmvInit(a, thr) ==
    [a |-> a, still_air_threshold |-> thr, set |-> 0, ce |-> Float(0),
     ta_adj |-> 0, pmv |-> 0, ppd |-> 0, heat_loss |-> <<>>,
     ce_l |-> ce_l, ce_r |-> ce_r, eps |-> 1, sets |-> <<>>]

\* lines 77-80: fn(ce), given pierce_set at the adjusted temperatures
Fn(set, adjusted_set) == set - adjusted_set

\* the adjusted arguments with the air speed left as given
Adjusted_VelKept(a, ce, thr) ==
    [a EXCEPT !.ta = a.ta - ce, !.tr = a.tr - ce]

\* the arguments of pmv_fanger and pierce_set with the cooling effect applied
Adjusted(a, ce, thr) ==
    [a EXCEPT !.ta = a.ta - ce, !.tr = a.tr - ce, !.vel = thr]

\* the comparison of line 68 made strict
StillAir_Strict(f) == f.a.vel < f.still_air_threshold

\* line 68: vel <= still_air_threshold
StillAir(f) == f.a.vel <= f.still_air_threshold

\* line 66: set = pierce_set(ta, tr, vel, rh, met, clo, wme)
PmvCallPierce ==
    /\ pc = "pmv_66"
    /\ CallPierce(pm.a)
    /\ stack' = <<"pmv_66r">> \o stack
    /\ UNCHANGED <<call, ret, result, pm, fg, pp, cm, calls>>

PmvSet ==
    /\ pc = "pmv_66r"
    /\ pm' = [pm EXCEPT !.set = ret.val]
    /\ pc' = "pmv_68"
    /\ ret' = Null
    /\ UNCHANGED <<call, stack, result, fg, ps, pp, cm, calls>>

\* lines 68-69: still air, Fanger at the inputs as given
PmvStill ==
    /\ pc = "pmv_68"
    /\ StillAir(pm)
    /\ CallFanger(pm.a)
    /\ stack' = <<"pmv_69r">> \o stack
    /\ UNCHANGED <<call, ret, result, pm, ps, pp, cm, calls>>

\* lines 69-71: unpacking what pmv_fanger returned
PmvStillAssign ==
    /\ pc = "pmv_69r"
    /\ IF ret.val.t = "tuple"
       THEN /\ pm' = [pm EXCEPT !.pmv = ret.val.pmv, !.ppd = ret.val.ppd,
                                !.heat_loss = ret.val.heat_loss,
                                !.ta_adj = pm.a.ta, !.ce = Float(0)]
            /\ pc' = "pmv_90"
            /\ ret' = Null
            /\ UNCHANGED <<stack, result>>
       ELSE /\ Raise("TypeError")
            /\ pm' = pm
    /\ fg' = Null
    /\ UNCHANGED <<call, ps, pp, cm, calls>>

\* lines 73-82: ce = secant(ce_l, ce_r, fn, eps)
PmvSecant ==
    /\ pc = "pmv_68"
    /\ ~StillAir(pm)
    /\ \E sets \in [CeVals -> XVals] :
          LET F == [ce \in CeVals |-> Fn(pm.set, sets[ce])]
          IN  \E r \in Secant(pm.ce_l, pm.ce_r, F, pm.eps, CeVals) :
                 /\ pm' = [pm EXCEPT !.ce = r,
                                     !.sets = IF r.nan THEN sets ELSE <<>>]
                 /\ calls' = Append(calls,
                        RootCall("pmv", "secant", pm.ce_l, pm.ce_r, "fn", pm.eps, r))
    /\ pc' = "pmv_83"
    /\ UNCHANGED <<call, stack, ret, result, fg, ps, pp, cm>>

\* lines 83-84: ce = bisect(ce_l, ce_r, fn, eps, 0)
PmvBisect ==
    /\ pc = "pmv_83"
    /\ IsNaN(pm.ce)
    /\ LET F == [ce \in CeVals |-> Fn(pm.set, pm.sets[ce])]
       IN  \E r \in Bisect(pm.ce_l, pm.ce_r, F, pm.eps, {0}, CeVals) :
              /\ pm' = [pm EXCEPT !.ce = r, !.sets = <<>>]
              /\ calls' = Append(calls,
                     RootCall("pmv", "bisect", pm.ce_l, pm.ce_r, "fn", pm.eps, r))
    /\ pc' = "pmv_86"
    /\ UNCHANGED <<call, stack, ret, result, fg, ps, pp, cm>>

\* lines 86-87: Fanger at the adjusted temperatures and the threshold speed
PmvAdjusted ==
    /\ \/ pc = "pmv_83" /\ ~IsNaN(pm.ce)
       \/ pc = "pmv_86"
    /\ CallFanger(Adjusted(pm.a, pm.ce.v, pm.still_air_threshold))
    /\ stack' = <<"pmv_86r">> \o stack
    /\ UNCHANGED <<call, ret, result, pm, ps, pp, cm, calls>>

\* lines 86-88
PmvAdjustedAssign ==
    /\ pc = "pmv_86r"
    /\ IF ret.val.t = "tuple"
       THEN /\ pm' = [pm EXCEPT !.pmv = ret.val.pmv, !.ppd = ret.val.ppd,
                                !.heat_loss = ret.val.heat_loss,
                                !.ta_adj = pm.a.ta - pm.ce.v]
            /\ pc' = "pmv_90"
            /\ ret' = Null
            /\ UNCHANGED <<stack, result>>
       ELSE /\ Raise("TypeError")
            /\ pm' = pm
    /\ fg' = Null
    /\ UNCHANGED <<call, ps, pp, cm, calls>>

\* lines 90-95: the result dictionary
ComfortResult(f) ==
    [pmv |-> f.pmv, ppd |-> f.ppd, set |-> f.set, ta_adj |-> f.ta_adj,
     ce |-> f.ce.v, heat_loss |-> f.heat_loss]

\* lines 90-97
PmvReturn ==
    /\ pc = "pmv_90"
    /\ Return(ComfortResult(pm))
    /\ UNCHANGED <<call, pm, fg, ps, pp, cm, calls>>

(***************************************************************************)
(* pmv_from_ppd                                                            *)
(***************************************************************************)
PpdVals == {3000, 5000, 5001, 26120, 76762, 99999, 100000, 150000}
PmvGrid == {-3000, -2000, -1000, 0, 1000, 2000, 3000}

\* lines 445-447 and the default ppd_error
PpdInit(ppd) ==
    [ppd |-> ppd, ppd_error |-> 1, pmv_low |-> -3000, pmv_mid |-> 0,
     pmv_hi |-> 3000, pmv_lower |-> Float(0), pmv_upper |-> Float(0)]

\* lines 449-452: fn(pmv)
PpdFn(pmv, ppd) == PpdFromPmv(pmv) - ppd

\* the bounds of line 444 taken as part of the domain
PpdInDomain_Closed(ppd) == ppd >= 5000 /\ ppd <= 100000

\* line 444: the domain of the inverse
PpdInDomain(ppd) == ppd > 5000 /\ ppd < 100000

\* lines 444, 464-466
PpdCheck ==
    /\ pc = "pp_444"
    /\ IF PpdInDomain(pp.ppd)
       THEN /\ pc' = "pp_455"
            /\ UNCHANGED <<stack, ret, result>>
       ELSE Raise("ValueError")
    /\ UNCHANGED <<call, pm, fg, ps, pp, cm, calls>>

\* line 455: pmv_lower = secant(pmv_low, pmv_mid, fn, ppd_error)
PpdSecantLower ==
    /\ pc = "pp_455"
    /\ LET F == [x \in PmvGrid |-> PpdFn(x, pp.ppd)]
       IN  \E r \in Secant(pp.pmv_low, pp.pmv_mid, F, pp.ppd_error, PmvGrid) :
              /\ pp' = [pp EXCEPT !.pmv_lower = r]
              /\ calls' = Append(calls,
                     RootCall("pmv_from_ppd", "secant", pp.pmv_low, pp.pmv_mid,
                              "fn", pp.ppd_error, r))
    /\ pc' = "pp_456"
    /\ UNCHANGED <<call, stack, ret, result, pm, fg, ps, cm>>

\* lines 456-457: bisect(pmv_low, pmv_mid, fn, ppd_error); the fallback is the
\* default of rootfind.py, any float
PpdBisectLower ==
    /\ pc = "pp_456"
    /\ IsNaN(pp.pmv_lower)
    /\ LET F == [x \in PmvGrid |-> PpdFn(x, pp.ppd)]
       IN  \E r \in Bisect(pp.pmv_low, pp.pmv_mid, F, pp.ppd_error, PmvGrid, PmvGrid) :
              /\ pp' = [pp EXCEPT !.pmv_lower = r]
              /\ calls' = Append(calls,
                     RootCall("pmv_from_ppd", "bisect", pp.pmv_low, pp.pmv_mid,
                              "fn", pp.ppd_error, r))
    /\ pc' = "pp_459"
    /\ UNCHANGED <<call, stack, ret, result, pm, fg, ps, cm>>

\* line 459: pmv_upper = secant(pmv_mid, pmv_hi, fn, ppd_error)
PpdSecantUpper ==
    /\ \/ pc = "pp_456" /\ ~IsNaN(pp.pmv_lower)
       \/ pc = "pp_459"
    /\ LET F == [x \in PmvGrid |-> PpdFn(x, pp.ppd)]
       IN  \E r \in Secant(pp.pmv_mid, pp.pmv_hi, F, pp.ppd_error, PmvGrid) :
              /\ pp' = [pp EXCEPT !.pmv_upper = r]
              /\ calls' = Append(calls,
                     RootCall("pmv_from_ppd", "secant", pp.pmv_mid, pp.pmv_hi,
                              "fn", pp.ppd_error, r))
    /\ pc' = "pp_460"
    /\ UNCHANGED <<call, stack, ret, result, pm, fg, ps, cm>>

\* lines 460-461
PpdBisectUpper ==
    /\ pc = "pp_460"
    /\ IsNaN(pp.pmv_upper)
    /\ LET F == [x \in PmvGrid |-> PpdFn(x, pp.ppd)]
       IN  \E r \in Bisect(pp.pmv_mid, pp.pmv_hi, F, pp.ppd_error, PmvGrid, PmvGrid) :
              /\ pp' = [pp EXCEPT !.pmv_upper = r]
              /\ calls' = Append(calls,
                     RootCall("pmv_from_ppd", "bisect", pp.pmv_mid, pp.pmv_hi,
                              "fn", pp.ppd_error, r))
    /\ pc' = "pp_463"
    /\ UNCHANGED <<call, stack, ret, result, pm, fg, ps, cm>>

\* line 463
PpdReturn ==
    /\ \/ pc = "pp_460" /\ ~IsNaN(pp.pmv_upper)
       \/ pc = "pp_463"
    /\ Return(<<pp.pmv_lower.v, pp.pmv_upper.v>>)
    /\ UNCHANGED <<call, pm, fg, ps, pp, cm, calls>>

(***************************************************************************)
(* calc_missing_pmv_input                                                  *)
(***************************************************************************)
MaxFnEvals == 3

InputNames ==
    {"air temperature", "rad temperature", "air speed", "rel humidity",
     "met rate", "clo value", "external work"}

NameVals ==
    InputNames \cup {"Air Temperature", "CLO VALUE", "operative temperature", ""}

TargetVals == {0, 500}            \* target_pmv: 0 and 0.5
MissingGrid == {0, 50, 100}       \* candidate values between the default bounds
OtherInputs == <<30000, 10, 50, 1200, 500, 0>>

\* lower-casing that falls back to the default name, 'air temperature'
Lower_Default(name) ==
    CASE name = "Air Temperature" -> "air temperature"
      [] name = "CLO VALUE" -> "clo value"
      [] name \in InputNames -> name
      [] OTHER -> "air temperature"

\* str.lower() on the names of the model
Lower(name) ==
    CASE name = "Air Temperature" -> "air temperature"
      [] name = "CLO VALUE" -> "clo value"
      [] OTHER -> name

\* lines 514-548: the arguments fn(x) gives to pmv, per missing input
FnArgs(missing_pmv_input, x, o) ==
    CASE missing_pmv_input = "air temperature" ->
            [ta |-> x, tr |-> o[1], vel |-> o[2], rh |-> o[3],
             met |-> o[4], clo |-> o[5], wme |-> o[6]]
      [] missing_pmv_input = "rad temperature" ->
            [ta |-> o[1], tr |-> x, vel |-> o[2], rh |-> o[3],
             met |-> o[4], clo |-> o[5], wme |-> o[6]]
      [] missing_pmv_input = "air speed" ->
            [ta |-> o[1], tr |-> o[2], vel |-> x, rh |-> o[3],
             met |-> o[4], clo |-> o[5], wme |-> o[6]]
      [] missing_pmv_input = "rel humidity" ->
            [ta |-> o[1], tr |-> o[2], vel |-> o[3], rh |-> x,
             met |-> o[4], clo |-> o[5], wme |-> o[6]]
      [] missing_pmv_input = "met rate" ->
            [ta |-> o[1], tr |-> o[2], vel |-> o[3], rh |-> o[4],
             met |-> x, clo |-> o[5], wme |-> o[6]]
      [] missing_pmv_input = "clo value" ->
            [ta |-> o[1], tr |-> o[2], vel |-> o[3], rh |-> o[4],
             met |-> o[5], clo |-> x, wme |-> o[6]]
      [] missing_pmv_input = "external work" ->
            [ta |-> o[1], tr |-> o[2], vel |-> o[3], rh |-> o[4],
             met |-> o[5], clo |-> o[6], wme |-> x]

\* lines 514-548: whether one of the branches defined fn
FnBound(missing_pmv_input) == missing_pmv_input \in InputNames

\* the arguments and the defaults of lines 469-471
CalcInit(target_pmv, other_inputs, missing_pmv_input) ==
    [target_pmv |-> target_pmv, other_inputs |-> other_inputs,
     missing_pmv_input |-> missing_pmv_input, low_bound |-> 0,
     up_bound |-> 100, error |-> 1, fn |-> "unbound",
     missing_val |-> Float(0), pmvs |-> <<>>, pmv_calls |-> 0,
     pmv_args |-> <<>>]

\* lines 511-548: lower-casing the name and choosing fn
CalcDispatch ==
    /\ pc = "cm_511"
    /\ LET name == Lower(cm.missing_pmv_input)
       IN  cm' = [cm EXCEPT !.missing_pmv_input = name,
                            !.fn = IF FnBound(name) THEN "fn" ELSE "unbound"]
    /\ pc' = "cm_551"
    /\ UNCHANGED <<call, stack, ret, result, pm, fg, ps, pp, calls>>

\* line 551: missing_val = secant(low_bound, up_bound, fn, error); fn(x) is
\* pmv(...)['pmv'] - target_pmv, pmvs[x] being what pmv gives at x
CalcSecant ==
    /\ pc = "cm_551"
    /\ IF cm.fn = "unbound"
       THEN /\ Raise("UnboundLocalError")
            /\ UNCHANGED <<cm, calls>>
       ELSE /\ \E pmvs \in [MissingGrid -> PmvVals], k \in 1..MaxFnEvals :
                  LET F == [x \in MissingGrid |-> pmvs[x] - cm.target_pmv]
                  IN  \E r \in Secant(cm.low_bound, cm.up_bound, F, cm.error,
                                      MissingGrid) :
                         /\ cm' = [cm EXCEPT
                                     !.missing_val = r,
                                     !.pmvs = IF r.nan THEN pmvs ELSE <<>>,
                                     !.pmv_calls = k,
                                     !.pmv_args = FnArgs(cm.missing_pmv_input,
                                                         r.v, cm.other_inputs)]
                         /\ calls' = Append(calls,
                                RootCall("calc_missing_pmv_input", "secant",
                                         cm.low_bound, cm.up_bound, cm.fn,
                                         cm.error, r))
            /\ pc' = "cm_552"
            /\ UNCHANGED <<stack, ret, result>>
    /\ UNCHANGED <<call, pm, fg, ps, pp>>

\* lines 552-553: bisect(low_bound, up_bound, fn, error), default fallback
CalcBisect ==
    /\ pc = "cm_552"
    /\ IsNaN(cm.missing_val)
    /\ LET F == [x \in MissingGrid |-> cm.pmvs[x] - cm.target_pmv]
       IN  \E r \in Bisect(cm.low_bound, cm.up_bound, F, cm.error,
                           MissingGrid, MissingGrid) :
              /\ cm' = [cm EXCEPT
                          !.missing_val = r, !.pmvs = <<>>,
                          !.pmv_args = FnArgs(cm.missing_pmv_input, r.v,
                                              cm.other_inputs)]
              /\ calls' = Append(calls,
                     RootCall("calc_missing_pmv_input", "bisect",
                              cm.low_bound, cm.up_bound, cm.fn, cm.error, r))
    /\ pc' = "cm_555"
    /\ UNCHANGED <<call, stack, ret, result, pm, fg, ps, pp>>

\* line 555
CalcReturn ==
    /\ \/ pc = "cm_552" /\ ~IsNaN(cm.missing_val)
       \/ pc = "cm_555"
    /\ Return(cm.missing_val.v)
    /\ UNCHANGED <<call, pm, fg, ps, pp, cm, calls>>

(***************************************************************************)
(* The public call                                                         *)
(***************************************************************************)
PmvInputs == {a \in Inputs : a.met = 1200 /\ a.clo = 500}

Calls ==
    [op : {"pierce_set"}, a : Inputs]
    \cup [op : {"pmv_fanger"}, a : Inputs]
    \cup [op : {"pmv"}, a : PmvInputs, still_air_threshold : ThrVals]
    \cup [op : {"pmv_from_ppd"}, ppd : PpdVals]
    \cup [op : {"calc_missing_pmv_input"}, target_pmv : TargetVals,
           missing_pmv_input : NameVals]

Init ==
    /\ call \in Calls
    /\ pc = CASE call.op = "pierce_set" -> "ps_294"
              [] call.op = "pmv_fanger" -> "fg_161"
              [] call.op = "pmv" -> "pmv_66"
              [] call.op = "pmv_from_ppd" -> "pp_444"
              [] call.op = "calc_missing_pmv_input" -> "cm_511"
    /\ ps = IF call.op = "pierce_set" THEN PierceInit(call.a) ELSE Null
    /\ fg = IF call.op = "pmv_fanger" THEN FangerInit(call.a) ELSE Null
    /\ pm = IF call.op = "pmv"
            THEN PmvInit(call.a, call.still_air_threshold)
            ELSE Null
    /\ pp = IF call.op = "pmv_from_ppd" THEN PpdInit(call.ppd) ELSE Null
    /\ cm = IF call.op = "calc_missing_pmv_input"
            THEN CalcInit(call.target_pmv, OtherInputs, call.missing_pmv_input)
            ELSE Null
    /\ stack = <<>>
    /\ ret = Null
    /\ result = [kind |-> "none", val |-> 0]
    /\ calls = <<>>

Next ==
    \/ PierceStep
    \/ PierceStandard
    \/ PierceNewton
    \/ PierceReturn
    \/ FangerIter
    \/ FangerFinish
    \/ PmvCallPierce
    \/ PmvSet
    \/ PmvStill
    \/ PmvStillAssign
    \/ PmvSecant
    \/ PmvBisect
    \/ PmvAdjusted
    \/ PmvAdjustedAssign
    \/ PmvReturn
    \/ PpdCheck
    \/ PpdSecantLower
    \/ PpdBisectLower
    \/ PpdSecantUpper
    \/ PpdBisectUpper
    \/ PpdReturn
    \/ CalcDispatch
    \/ CalcSecant
    \/ CalcBisect
    \/ CalcReturn

Spec == Init /\ [][Next]_vars

\* The interpreter runs the call on: a statement that can execute does.
FairSpec == Spec /\ WF_vars(Next)

(***************************************************************************)
(* The claims                                                              *)
(***************************************************************************)
Returned == pc = "done" /\ result.kind = "value"

Raised == pc = "done" /\ result.kind = "raise"

\* C1: a call of pmv with vel <= still_air_threshold makes no call of secant
\* or bisect, and the result it returns has ce = 0 and ta_adj = ta.
C1_StillAirResult ==
    (call.op = "pmv" /\ call.a.vel <= call.still_air_threshold) =>
        /\ calls = <<>>
        /\ Returned => (result.val.ce = 0 /\ result.val.ta_adj = call.a.ta)

C1_Witness ==
    /\ call.op = "pmv"
    /\ call.a.vel = call.still_air_threshold
    /\ Returned
    /\ result.val.ce = 0

\* the two root finder calls belong to one solve
SameSolve(c, d) ==
    /\ c.caller = d.caller
    /\ c.lower = d.lower
    /\ c.upper = d.upper
    /\ c.fn = d.fn
    /\ c.tolerance = d.tolerance

\* the statements that test what secant returned: lines 83, 456, 460, 552
AtNaNTest == pc \in {"pmv_83", "pp_456", "pp_460", "cm_552"}

\* C2: in every caller a call of bisect directly follows a call of secant on
\* the same bounds, function and tolerance that returned 'NaN', and a secant
\* call that returned 'NaN' is followed by that bisect call; so bisect never
\* comes first and never follows a secant call that returned a value.
C2_SecantThenBisect ==
    \A i \in 1..Len(calls) :
        /\ calls[i].kind = "bisect" =>
              /\ i > 1
              /\ calls[i - 1].kind = "secant"
              /\ calls[i - 1].ret = NaN
              /\ SameSolve(calls[i - 1], calls[i])
        /\ (calls[i].kind = "secant" /\ calls[i].ret = NaN) =>
              IF i < Len(calls)
              THEN calls[i + 1].kind = "bisect"
              ELSE AtNaNTest

C2_Witness ==
    /\ call.op = "pmv_from_ppd"
    /\ Returned
    /\ Len(calls) = 4
    /\ calls[4].kind = "bisect"

\* C3: pmv_from_ppd with ppd outside the open interval (5, 100), the bounds
\* included, raises ValueError, returns no pair and calls neither secant nor
\* bisect; with ppd inside the interval it never raises ValueError.
C3_PpdDomain ==
    call.op = "pmv_from_ppd" =>
        IF call.ppd <= 5000 \/ call.ppd >= 100000
        THEN /\ calls = <<>>
             /\ pc \in {"pp_444", "done"}
             /\ pc = "done" => (result.kind = "raise" /\ result.val = "ValueError")
        ELSE ~Raised

C3_Witness ==
    /\ call.op = "pmv_from_ppd"
    /\ call.ppd = 5000
    /\ Raised
    /\ result.val = "ValueError"

\* C4: when the tcl loop of pmv_fanger exceeds its iteration cap, pmv_fanger
\* does not return a value: the call ends in a convergence failure.
C4_CapFailure ==
    (call.op = "pmv_fanger" /\ pc = "done" /\ FangerCapped(fg)) =>
        result.kind = "raise"

UnknownNames == {"operative temperature", ""}

\* C5: calc_missing_pmv_input with a name that is, lower-cased, none of the
\* seven inputs ends in an error: it returns no value, evaluates pmv not once
\* and calls neither secant nor bisect.
C5_UnknownName ==
    (call.op = "calc_missing_pmv_input"
     /\ call.missing_pmv_input \in UnknownNames) =>
        /\ calls = <<>>
        /\ cm.pmv_calls = 0
        /\ pc \in {"cm_511", "cm_551", "done"}
        /\ pc = "done" => result.kind = "raise"

C5_Witness ==
    /\ call.op = "calc_missing_pmv_input"
    /\ call.missing_pmv_input = "operative temperature"
    /\ Raised

\* C6: every loop of pmv_fanger and pierce_set is bounded, so every call
\* terminates.
C6_Terminates == <>(pc = "done")

\* C7: in pmv with vel > still_air_threshold, when secant gave 'NaN' and the
\* interval given to bisect does not bracket a root, pmv ends in a
\* convergence failure and returns no ComfortResult.
C7_FailureSurfaced ==
    (/\ call.op = "pmv"
     /\ pc = "done"
     /\ Len(calls) = 2
     /\ calls[1].ret = NaN
     /\ calls[2].ret.fb) =>
        result.kind = "raise"

\* C8: the cooling effect of every ComfortResult pmv returns is between 0
\* and 40.
C8_CeRange ==
    (call.op = "pmv" /\ Returned) =>
        (0 <= result.val.ce /\ result.val.ce <= 40000)

InLoop == pc = "ps_294"

\* C9: the simulation loop of pierce_set is left only after 60 steps, each step
\* counting one; the statement under "if flag is True" is reached in the first
\* step only; from the second step on chr, ctc, RA, top and tcl do not change.
C9_SixtySteps ==
    /\ [](/\ (InLoop /\ ps.flag) => ps.TIM = 0
          /\ InLoop => ps.TIM <= 60
          /\ pc = "ps_399" => ps.TIM = 60)
    /\ [][/\ (InLoop /\ pc' = "ps_294") => ps'.TIM = ps.TIM + 1
          /\ (InLoop /\ pc' = "ps_399") => ps.TIM = 60
          /\ (InLoop /\ ps.TIM >= 1) =>
                /\ ps'.chr = ps.chr
                /\ ps'.ctc = ps.ctc
                /\ ps'.RA = ps.RA
                /\ ps'.top = ps.top
                /\ ps'.tcl = ps.tcl]_vars

C9_Witness ==
    /\ InLoop
    /\ ps.TIM = 59
    /\ ~ps.flag

\* C10: at the end of a step of the simulation in which emax is negative,
\* esk equals emax and pwet equals wcrit.
C10_NegativeEmax ==
    (InLoop /\ ps.TIM >= 1 /\ ps.emax < 0) =>
        (ps.esk = ps.emax /\ ps.pwet = ps.wcrit)

Windy == call.op = "pmv" /\ call.a.vel > call.still_air_threshold

\* (ta - ce, tr - ce, still_air_threshold, rh, met, clo, wme)
AtThreshold(ce) ==
    [ta |-> call.a.ta - ce, tr |-> call.a.tr - ce,
     vel |-> call.still_air_threshold, rh |-> call.a.rh,
     met |-> call.a.met, clo |-> call.a.clo, wme |-> call.a.wme]

\* what one evaluation of pmv_fanger at the arguments a can return
FangerAt(a) ==
    {FangerResult(FangerBody(FangerInit(a), hcn, gap), p) :
        hcn \in HcnVals, gap \in GapVals, p \in PmvVals}

\* C11: a call of pmv with vel > still_air_threshold that returns a result
\* returns the pmv, ppd and heat_loss of one evaluation of pmv_fanger at
\* (ta - ce, tr - ce, still_air_threshold, rh, met, clo, wme) for the ce it
\* returns, ta_adj = ta - ce, and as set what pierce_set returned for the
\* inputs as given: pierce_set runs on the inputs as given, pmv_fanger is
\* entered once, after ce is settled, on the adjusted inputs, and what the
\* two return is carried to the result unchanged.
C11_WindyResult ==
    /\ [](Windy =>
            /\ pc \in {"ps_294", "ps_399"} => ps.a = call.a
            /\ pc = "fg_161" => fg.a = AtThreshold(pm.ce.v)
            /\ (pc = "pmv_86r" /\ ret.val.t = "tuple") =>
                  \E p \in PmvVals : ret.val = FangerResult(fg, p)
            /\ Returned =>
                  /\ result.val.ta_adj = call.a.ta - result.val.ce
                  /\ \E r \in FangerAt(AtThreshold(result.val.ce)) :
                        /\ result.val.pmv = r.pmv
                        /\ result.val.ppd = r.ppd
                        /\ result.val.heat_loss = r.heat_loss)
    /\ [][Windy =>
            /\ (pc = "ps_399" /\ pc' = "pmv_66r") => ret'.val = ps.x
            /\ pc = "pmv_66r" => pm'.set = ret.val
            /\ pc # "pmv_66r" => pm'.set = pm.set
            /\ (pc # "fg_161" /\ pc' = "fg_161") => pc \in {"pmv_83", "pmv_86"}
            /\ pc \in {"fg_161", "pmv_86r", "pmv_90"} => pm'.ce = pm.ce
            /\ (pc = "pmv_86r" /\ pc' # "done") =>
                  /\ pc' = "pmv_90"
                  /\ pm'.pmv = ret.val.pmv
                  /\ pm'.ppd = ret.val.ppd
                  /\ pm'.heat_loss = ret.val.heat_loss
            /\ pc = "pmv_90" =>
                  /\ Returned'
                  /\ result'.val.pmv = pm.pmv
                  /\ result'.val.ppd = pm.ppd
                  /\ result'.val.heat_loss = pm.heat_loss
                  /\ result'.val.set = pm.set
                  /\ result'.val.ce = pm.ce.v]_vars

\* a returned result with a cooling effect of 3.5 C
C11_Witness ==
    /\ Windy
    /\ Returned
    /\ result.val.ce = 3500
    /\ result.val.ta_adj = call.a.ta - 3500

====
